---- MODULE Spec2Model ----
(***************************************************************************)
(* Model of apps/api/src/ml/training/train-ranker.py: one batch run of     *)
(* main(): load_csv (row loop, filter loop, empty check), train,           *)
(* save_model to the output path and the optional upload_to_s3.            *)
(*                                                                         *)
(* CSV field texts are sequences of one-character strings, so that int()   *)
(* and float() are modelled by what they accept and what they return.      *)
(* None is the value csv.DictReader gives a field that a short row lacks.  *)
(***************************************************************************)
EXTENDS Integers, Sequences, FiniteSets, TLC

VARIABLES
    args,        \* argparse result: [s3_bucket, s3_key]
    fieldnames,  \* csv.DictReader.fieldnames: the header's column names
    rowsRead,    \* the data rows the reader has yielded so far, in file order
    by_query,    \* dict qid -> list of (features, label), in insertion order
    qi,          \* position of the filter loop in by_query.items()
    X_rows,      \* list of feature rows under construction
    y_rows,      \* list of labels under construction
    groups,      \* list of group sizes
    skipped,     \* number of uniform-label queries skipped
    ret,         \* what load_csv returned: NotReturned, or X, y and groups
    booster,     \* "none" or "trained"
    artifact,    \* content of the output path: "absent", "partial", "complete"
    saves,       \* number of save_model calls made on the output path
    uploads,     \* number of s3.upload_file calls made
    remote,      \* content of the S3 object: "absent" or "complete"
    stderr,      \* the diagnostics printed so far
    error,       \* the exception that ended the run, "" when none
    exitcode,    \* process exit status, -1 while running
    pc           \* position of main

vars == <<args, fieldnames, rowsRead, by_query, qi, X_rows, y_rows, groups,
          skipped, ret, booster, artifact, saves, uploads, remote, stderr,
          error, exitcode, pc>>

\* The value of a field that the row lacks; it is no field text.
None == <<"None">>

\* load_csv has not returned.
NotReturned == [returned |-> FALSE]

\* Largest number of data rows in the input file, for load_csv alone and for
\* a whole run of main.
MaxRows == 4

MainRows == 3

(***************************************************************************)
(* Constants of the program                                                *)
(***************************************************************************)
FEATURE_COLS ==
    << "f0_similarity", "f1_rank_score", "f2_authority", "f3_source_boost",
       "f4_crop_match", "f5_term_density", "f6_chunk_pos" >>

FeatureColSet == { FEATURE_COLS[i] : i \in 1..Len(FEATURE_COLS) }

RequiredCols == {"qid", "label"} \cup FeatureColSet

(***************************************************************************)
(* int() and float() on a field text                                       *)
(***************************************************************************)
DigitValue ==
    ("0" :> 0) @@ ("1" :> 1) @@ ("2" :> 2) @@ ("3" :> 3) @@ ("4" :> 4) @@
    ("5" :> 5) @@ ("6" :> 6) @@ ("7" :> 7) @@ ("8" :> 8) @@ ("9" :> 9)

IsDigit(c) == c \in DOMAIN DigitValue

IsSpace(c) == c = " "

RECURSIVE LStrip(_)
LStrip(s) ==
    IF s # <<>> /\ IsSpace(Head(s)) THEN LStrip(Tail(s)) ELSE s

RECURSIVE RStrip(_)
RStrip(s) ==
    IF s # <<>> /\ IsSpace(s[Len(s)])
    THEN RStrip(SubSeq(s, 1, Len(s) - 1))
    ELSE s

Strip(s) == RStrip(LStrip(s))

HasSign(s) == s # <<>> /\ Head(s) \in {"+", "-"}

Unsigned(s) == IF HasSign(s) THEN Tail(s) ELSE s

SignOf(s) == IF s # <<>> /\ Head(s) = "-" THEN -1 ELSE 1

RECURSIVE DecVal(_)
DecVal(ds) ==
    IF ds = <<>> THEN 0
    ELSE 10 * DecVal(SubSeq(ds, 1, Len(ds) - 1)) + DigitValue[ds[Len(ds)]]

RECURSIVE Pow10(_)
Pow10(n) == IF n = 0 THEN 1 ELSE 10 * Pow10(n - 1)

RECURSIVE Gcd(_, _)
Gcd(a, b) == IF b = 0 THEN a ELSE Gcd(b, a % b)

Raise(kind) == [ok |-> FALSE, err |-> kind]

Value(v) == [ok |-> TRUE, val |-> v]

\* int(text): surrounding blanks and one sign are accepted, then digits only.
ParseIntLenient(t) ==
    IF t = None THEN Value(0)
    ELSE LET body == Unsigned(Strip(t)) IN
         IF body = <<>> \/ \E i \in 1..Len(body) : ~IsDigit(body[i])
         THEN Value(0)
         ELSE Value(SignOf(Strip(t)) * DecVal(body))

ParseInt(t) ==
    IF t = None THEN Raise("TypeError")
    ELSE LET body == Unsigned(Strip(t)) IN
         IF body = <<>> \/ \E i \in 1..Len(body) : ~IsDigit(body[i])
         THEN Raise("ValueError")
         ELSE Value(SignOf(Strip(t)) * DecVal(body))

\* float(text) on decimal notation: blanks, one sign, digits with at most one
\* point and at least one digit.  The value is the reduced fraction n/d.
ParseFloat(t) ==
    IF t = None THEN Raise("TypeError")
    ELSE LET body   == Unsigned(Strip(t))
             points == { i \in 1..Len(body) : body[i] = "." }
             digits == SelectSeq(body, IsDigit)
         IN
         IF \/ digits = <<>>
            \/ Cardinality(points) > 1
            \/ \E i \in 1..Len(body) : ~IsDigit(body[i]) /\ body[i] # "."
         THEN Raise("ValueError")
         ELSE LET frac == IF points = {} THEN 0
                          ELSE Len(body) - (CHOOSE i \in points : TRUE)
                  n    == DecVal(digits)
                  d    == Pow10(frac)
                  g    == Gcd(n, d)
              IN Value([n |-> SignOf(Strip(t)) * (n \div g), d |-> d \div g])

(***************************************************************************)
(* load_csv: one row of the reader loop                                    *)
(***************************************************************************)
\* [float(row[col]) for col in FEATURE_COLS], from column i on: the columns
\* are read in order, so the first one that is absent or does not parse
\* decides the exception.
RECURSIVE ParseFeatures(_, _)
ParseFeatures(row, i) ==
    IF i > Len(FEATURE_COLS) THEN Value(<<>>)
    ELSE IF FEATURE_COLS[i] \notin DOMAIN row THEN Raise("KeyError")
    ELSE LET v == ParseFloat(row[FEATURE_COLS[i]]) IN
         IF ~v.ok THEN v
         ELSE LET rest == ParseFeatures(row, i + 1) IN
              IF ~rest.ok THEN rest ELSE Value(<<v.val>> \o rest.val)

\* Lines 72-74: qid, label and features of a row, or the exception raised.
ParseRow(row) ==
    IF "qid" \notin DOMAIN row THEN Raise("KeyError")
    ELSE IF "label" \notin DOMAIN row THEN Raise("KeyError")
    ELSE LET l == ParseInt(row["label"]) IN
         IF ~l.ok THEN l
         ELSE LET f == ParseFeatures(row, 1) IN
              IF ~f.ok THEN f
              ELSE Value([qid  |-> row["qid"],
                          item |-> [features |-> f.val, label |-> l.val]])

HasKey(d, k) == \E i \in 1..Len(d) : d[i].qid = k

\* by_query[qid].append(item) on a defaultdict(list): a new key goes last.
DictAppendFront(d, k, item) ==
    IF HasKey(d, k)
    THEN [i \in 1..Len(d) |->
            IF d[i].qid = k
            THEN [d[i] EXCEPT !.items = <<item>> \o @]
            ELSE d[i]]
    ELSE Append(d, [qid |-> k, items |-> <<item>>])

DictAppend(d, k, item) ==
    IF HasKey(d, k)
    THEN [i \in 1..Len(d) |->
            IF d[i].qid = k
            THEN [d[i] EXCEPT !.items = Append(@, item)]
            ELSE d[i]]
    ELSE Append(d, [qid |-> k, items |-> <<item>>])

(***************************************************************************)
(* load_csv: the filter loop and the return                                *)
(***************************************************************************)
LabelsOf(items) == [i \in 1..Len(items) |-> items[i].label]

SetOf(s) == { s[i] : i \in 1..Len(s) }

\* len(set(labels)) < 2
IsUniformNever(labels) == Cardinality(SetOf(labels)) < 1

IsUniformByCount(labels) == Len(labels) < 2

IsUniform(labels) == Cardinality(SetOf(labels)) < 2

\* groups.append(len(items))
GroupSizeDistinct(items) == Cardinality(SetOf(LabelsOf(items)))

GroupSize(items) == Len(items)

\* not X_rows
NoUsableNever(rows) == FALSE

NoUsable(rows) == rows = <<>>

\* np.array(..., dtype=np.float32) on a fraction n/d: exact when d is a power
\* of two and n fits the 24-bit significand, which holds of every field text
\* the model reads.
RECURSIVE IsPow2(_)
IsPow2(d) == d = 1 \/ (d > 1 /\ d % 2 = 0 /\ IsPow2(d \div 2))

Float32(v) == CASE IsPow2(v.d) /\ v.n < 16777216 /\ -v.n < 16777216 -> v

\* np.array(..., dtype=np.int32)
Int32(v) == CASE v >= -2147483647 - 1 /\ v <= 2147483647 -> v

AsFloat32Matrix(rows) ==
    [i \in 1..Len(rows) |-> [j \in 1..Len(rows[i]) |-> Float32(rows[i][j])]]

AsInt32Vector(ys) == [i \in 1..Len(ys) |-> Int32(ys[i])]

(***************************************************************************)
(* main                                                                    *)
(***************************************************************************)
\* args.s3_bucket and args.s3_key
UploadRequestedEither(a) == a.s3_bucket # "" \/ a.s3_key # ""

UploadRequested(a) == a.s3_bucket # "" /\ a.s3_key # ""

Fail(kind) ==
    /\ pc' = "failed"
    /\ error' = kind
    /\ exitcode' = 1

(***************************************************************************)
(* The inputs of a run                                                     *)
(***************************************************************************)
QIDS == {"q1", "q2"}

\* Label texts int() accepts, with and without a blank to strip.
GoodLabelTexts == { <<"0">>, <<" ", "1">> }

\* Label texts int() rejects: a word and a decimal.
BadLabelTexts == { <<"x">>, <<"1", ".", "0">> }

Features(f0, f6) ==
    [c \in FeatureColSet |->
        IF c = "f0_similarity" THEN f0
        ELSE IF c = "f6_chunk_pos" THEN f6 ELSE <<"1">>]

GoodFeatureTexts == { Features(<<"1">>, <<"1">>), Features(<<".", "5">>, <<"1">>) }

\* A malformed first feature, an empty last feature, and a short row, which
\* lacks its last field.
BadFeatureTexts ==
    { Features(<<"x">>, <<"1">>), Features(<<"1">>, <<>>), Features(<<"1">>, None) }

MakeRow(q, l, f) ==
    [c \in RequiredCols |->
        IF c = "qid" THEN q ELSE IF c = "label" THEN l ELSE f[c]]

GoodRows == { MakeRow(q, l, f) : q \in QIDS, l \in GoodLabelTexts, f \in GoodFeatureTexts }

BadRows ==
    { MakeRow("q1", l, Features(<<"1">>, <<"1">>)) : l \in BadLabelTexts }
    \cup { MakeRow("q1", <<"0">>, f) : f \in BadFeatureTexts }

FullRows == GoodRows \cup BadRows

Restrict(row, cols) == [c \in cols |-> row[c]]

Headers ==
    { RequiredCols,
      RequiredCols \ {"qid"},
      RequiredCols \ {"label"},
      RequiredCols \ {"f6_chunk_pos"} }

ArgChoices == [s3_bucket : {"", "bucket"}, s3_key : {"", "key"}]

Init ==
    /\ args \in ArgChoices
    /\ fieldnames \in Headers
    /\ rowsRead = <<>>
    /\ by_query = <<>>
    /\ qi = 0
    /\ X_rows = <<>>
    /\ y_rows = <<>>
    /\ groups = <<>>
    /\ skipped = 0
    /\ ret = NotReturned
    /\ booster = "none"
    /\ artifact = "absent"
    /\ saves = 0
    /\ uploads = 0
    /\ remote = "absent"
    /\ stderr = <<"Loading">>
    /\ error = ""
    /\ exitcode = -1
    /\ pc = "load"

\* Lines 71-75: the reader yields one more row.
ReadRow(limit) ==
    /\ pc = "load"
    /\ Len(rowsRead) < limit
    /\ \E full \in FullRows :
         LET row == Restrict(full, fieldnames)
             r   == ParseRow(row)
         IN /\ rowsRead' = Append(rowsRead, row)
            /\ IF r.ok
               THEN /\ by_query' = DictAppend(by_query, r.val.qid, r.val.item)
                    /\ UNCHANGED <<pc, error, exitcode>>
               ELSE /\ Fail(r.err)
                    /\ UNCHANGED by_query
    /\ UNCHANGED <<args, fieldnames, qi, X_rows, y_rows, groups, skipped, ret,
                   booster, artifact, saves, uploads, remote, stderr>>

\* The reader is exhausted; lines 77-80.
EndOfFile ==
    /\ pc = "load"
    /\ pc' = "filter"
    /\ qi' = 1
    /\ X_rows' = <<>>
    /\ y_rows' = <<>>
    /\ groups' = <<>>
    /\ skipped' = 0
    /\ UNCHANGED <<args, fieldnames, rowsRead, by_query, ret, booster,
                   artifact, saves, uploads, remote, stderr, error, exitcode>>

\* Lines 82-92: one iteration of the loop over by_query.items().
FilterGroup ==
    /\ pc = "filter"
    /\ qi <= Len(by_query)
    /\ LET items == by_query[qi].items IN
       IF IsUniform(LabelsOf(items))
       THEN /\ skipped' = skipped + 1
            /\ UNCHANGED <<X_rows, y_rows, groups>>
       ELSE /\ X_rows' = X_rows \o [i \in 1..Len(items) |-> items[i].features]
            /\ y_rows' = y_rows \o LabelsOf(items)
            /\ groups' = Append(groups, GroupSize(items))
            /\ UNCHANGED skipped
    /\ qi' = qi + 1
    /\ UNCHANGED <<args, fieldnames, rowsRead, by_query, ret, booster,
                   artifact, saves, uploads, remote, stderr, error, exitcode,
                   pc>>

\* Lines 94-110 and 186: the skipped report, the empty check, the return.
LoadCsvReturn ==
    /\ pc = "filter"
    /\ qi > Len(by_query)
    /\ LET out == IF skipped # 0 THEN Append(stderr, "Skipped") ELSE stderr IN
       IF NoUsable(X_rows)
       THEN /\ stderr' = Append(out, "ERROR: No usable training data")
            /\ Fail("SystemExit")
            /\ UNCHANGED ret
       ELSE /\ ret' = [returned |-> TRUE,
                       X      |-> AsFloat32Matrix(X_rows),
                       y      |-> AsInt32Vector(y_rows),
                       groups |-> groups]
            /\ stderr' = Append(out, "Loaded")
            /\ pc' = "train"
            /\ UNCHANGED <<error, exitcode>>
    /\ UNCHANGED <<args, fieldnames, rowsRead, by_query, qi, X_rows, y_rows,
                   groups, skipped, booster, artifact, saves, uploads, remote>>

\* Line 191, train(): lgb.train returns a booster or raises.
Train ==
    /\ pc = "train"
    /\ \E ok \in BOOLEAN :
         IF ok
         THEN /\ booster' = "trained"
              /\ stderr' = Append(stderr, "Training")
              /\ pc' = "save"
              /\ UNCHANGED <<error, exitcode>>
         ELSE /\ stderr' = Append(stderr, "Training")
              /\ Fail("LightGBMError")
              /\ UNCHANGED booster
    /\ UNCHANGED <<args, fieldnames, rowsRead, by_query, qi, X_rows, y_rows,
                   groups, skipped, ret, artifact, saves, uploads, remote>>

\* Lines 193-196: mkdir, then save_model writes the model text straight to the
\* output path.  The write ends complete, fails before the file is opened
\* (mkdir or open raises), or fails after part of the text reached the path.
SaveOutcomes == {"complete", "fail_before", "fail_partial"}

SaveModel ==
    /\ pc = "save"
    /\ \E outcome \in SaveOutcomes :
         CASE outcome = "complete" ->
                /\ artifact' = "complete"
                /\ saves' = saves + 1
                /\ stderr' = Append(stderr, "Model saved")
                /\ pc' = "saved"
                /\ UNCHANGED <<error, exitcode>>
           [] outcome = "fail_before" ->
                /\ Fail("OSError")
                /\ UNCHANGED <<artifact, saves, stderr>>
           [] outcome = "fail_partial" ->
                /\ artifact' = "partial"
                /\ saves' = saves + 1
                /\ Fail("OSError")
                /\ UNCHANGED stderr
    /\ UNCHANGED <<args, fieldnames, rowsRead, by_query, qi, X_rows, y_rows,
                   groups, skipped, ret, booster, uploads, remote>>

\* Lines 198-204: upload only when both --s3-bucket and --s3-key are given.
AfterSave ==
    /\ pc = "saved"
    /\ IF UploadRequested(args)
       THEN /\ pc' = "upload"
            /\ UNCHANGED <<stderr, exitcode>>
       ELSE /\ stderr' = Append(stderr, "Tip")
            /\ pc' = "done"
            /\ exitcode' = 0
    /\ UNCHANGED <<args, fieldnames, rowsRead, by_query, qi, X_rows, y_rows,
                   groups, skipped, ret, booster, artifact, saves, uploads,
                   remote, error>>

\* upload_to_s3: boto3 is missing (warning, return), or upload_file copies the
\* artifact, or upload_file raises and nothing catches it.
UploadOutcomes == {"no_boto3", "uploaded", "raise"}

UploadToS3 ==
    /\ pc = "upload"
    /\ \E outcome \in UploadOutcomes :
         CASE outcome = "no_boto3" ->
                /\ stderr' = Append(stderr, "WARNING: boto3 not installed")
                /\ pc' = "done"
                /\ exitcode' = 0
                /\ UNCHANGED <<uploads, remote, error>>
           [] outcome = "uploaded" ->
                /\ uploads' = uploads + 1
                /\ remote' = artifact
                /\ stderr' = stderr \o <<"Uploading", "Model uploaded">>
                /\ pc' = "done"
                /\ exitcode' = 0
                /\ UNCHANGED error
           [] outcome = "raise" ->
                /\ uploads' = uploads + 1
                /\ stderr' = Append(stderr, "Uploading")
                /\ Fail("S3UploadFailedError")
                /\ UNCHANGED remote
    /\ UNCHANGED <<args, fieldnames, rowsRead, by_query, qi, X_rows, y_rows,
                   groups, skipped, ret, booster, artifact, saves>>

Next ==
    \/ ReadRow(MainRows)
    \/ EndOfFile
    \/ FilterGroup
    \/ LoadCsvReturn
    \/ Train
    \/ SaveModel
    \/ AfterSave
    \/ UploadToS3

Spec == Init /\ [][Next]_vars

\* load_csv alone, on longer inputs.
InitLoad == Init /\ args = [s3_bucket |-> "", s3_key |-> ""]

NextLoad ==
    \/ ReadRow(MaxRows)
    \/ EndOfFile
    \/ FilterGroup
    \/ LoadCsvReturn

LoadSpec == InitLoad /\ [][NextLoad]_vars

(***************************************************************************)
(* The input as the file states it, for the properties below               *)
(***************************************************************************)
ParseErrors == {"KeyError", "ValueError", "TypeError"}

\* A row whose label or feature text is not a number of the expected type,
\* told from the text itself.
Malformed(row) ==
    \/ "label" \in DOMAIN row /\ row["label"] \in BadLabelTexts
    \/ \E c \in FeatureColSet \cap DOMAIN row : row[c] \in {<<"x">>, <<>>, None}

\* Every row read so far carries every required field and parses.
InputClean ==
    /\ RequiredCols \subseteq fieldnames
    /\ \A k \in 1..Len(rowsRead) : ~Malformed(rowsRead[k])

InputItems ==
    [k \in 1..Len(rowsRead) |->
        LET r == ParseRow(rowsRead[k]).val IN
        [qid |-> r.qid, features |-> r.item.features, label |-> r.item.label]]

\* The query id and the label of every row read, for the properties that
\* do not look at features.
InputLabels ==
    [k \in 1..Len(rowsRead) |->
        [qid |-> rowsRead[k]["qid"], label |-> ParseInt(rowsRead[k]["label"]).val]]

QidsOf(items) == { items[k].qid : k \in 1..Len(items) }

RowsOfQid(items, q) ==
    LET Same(it) == it.qid = q IN SelectSeq(items, Same)

LabelSetOfQid(items, q) ==
    { items[k].label : k \in { i \in 1..Len(items) : items[i].qid = q } }

\* Query groups with a single distinct label, and those with more.
UniformQidsOf(items) ==
    { q \in QidsOf(items) : Cardinality(LabelSetOfQid(items, q)) = 1 }

MixedQidsOf(items) ==
    { q \in QidsOf(items) : Cardinality(LabelSetOfQid(items, q)) >= 2 }

\* The number of input rows whose query id is in qs.
RowCount(items, qs) ==
    Cardinality({ k \in 1..Len(items) : items[k].qid \in qs })

RECURSIVE SumSeq(_)
SumSeq(s) == IF s = <<>> THEN 0 ELSE Head(s) + SumSeq(Tail(s))

\* The filter loop of load_csv has run to its end.
FilterDone ==
    \/ pc = "filter" /\ qi > Len(by_query)
    \/ pc \in {"train", "save", "saved", "upload", "done"}
    \/ pc = "failed" /\ error \notin ParseErrors

\* The labels of the i-th block of a returned training set.
BlockLabels(r, i) ==
    LET off == SumSeq(SubSeq(r.groups, 1, i - 1)) IN
    { r.y[k] : k \in (off + 1)..(off + r.groups[i]) }

\* The returned rows as (features, label) pairs, row k of X with entry k of y.
ReturnedRows(r) ==
    [k \in 1..Len(r.y) |-> [features |-> r.X[k], label |-> r.y[k]]]

RECURSIVE ExpectedRows(_, _)
ExpectedRows(items, qs) ==
    IF qs = <<>> THEN <<>>
    ELSE LET rows == RowsOfQid(items, Head(qs)) IN
         [k \in 1..Len(rows) |->
             [features |-> [j \in 1..Len(rows[k].features) |->
                               Float32(rows[k].features[j])],
              label    |-> rows[k].label]]
         \o ExpectedRows(items, Tail(qs))

Orderings(S) ==
    { qs \in [1..Cardinality(S) -> S] :
        \A i, j \in 1..Cardinality(S) : i # j => qs[i] # qs[j] }

(***************************************************************************)
(* Properties                                                              *)
(***************************************************************************)
\* C1: whenever load_csv returns, the sum of the group sizes equals the
\* number of labels, which equals the number of feature rows.
C1_GroupSizesSumToRows ==
    ret.returned =>
        /\ SumSeq(ret.groups) = Len(ret.y)
        /\ Len(ret.y) = Len(ret.X)

C1_Witness ==
    /\ ret.returned
    /\ Len(ret.groups) = 1
    /\ ret.groups[1] = 3

\* C2: once the filter loop has ended, the skipped counter is the number of
\* single-label query groups of the input, and the groups and rows kept are
\* exactly those of the other query groups, so a single-label group
\* contributes no row and no group entry.
C2_UniformGroupsSkipped ==
    (InputClean /\ FilterDone) =>
        LET items == InputLabels
            mixed == MixedQidsOf(items)
        IN /\ skipped = Cardinality(UniformQidsOf(items))
           /\ Len(groups) = Cardinality(mixed)
           /\ Len(y_rows) = RowCount(items, mixed)
           /\ Len(X_rows) = RowCount(items, mixed)

C2_Witness ==
    /\ InputClean
    /\ FilterDone
    /\ skipped = 1
    /\ groups = <<2>>
    /\ Len(rowsRead) = 4

\* C3: an input with zero records or with single-label query groups only
\* never reaches training: load_csv exits with the no-usable-data error, no
\* booster exists, and nothing is written to the output path or uploaded.
C3_NoUsableDataAborts ==
    (\/ rowsRead = <<>>
     \/ InputClean /\ LET items == InputLabels IN MixedQidsOf(items) = {}) =>
        /\ ret = NotReturned
        /\ booster = "none"
        /\ saves = 0
        /\ artifact = "absent"
        /\ uploads = 0
        /\ remote = "absent"
        /\ pc \in {"load", "filter", "failed"}
        /\ pc \notin {"load", "filter"} =>
             /\ pc = "failed"
             /\ error = "SystemExit"
             /\ exitcode = 1
             /\ stderr[Len(stderr)] = "ERROR: No usable training data"

C3_Witness ==
    /\ InputClean
    /\ Len(rowsRead) = 3
    /\ LET items == InputLabels IN Cardinality(UniformQidsOf(items)) = 2
    /\ skipped = 2
    /\ pc = "failed"
    /\ error = "SystemExit"

\* C4: once the model is saved locally, neither a missing boto3 nor a failed
\* upload_file makes the run fail: the run ends with exit status 0.
C4_RemoteFailureNonFatal ==
    (artifact = "complete" /\ pc \in {"done", "failed"}) =>
        /\ pc = "done"
        /\ exitcode = 0

\* C5: a row whose label or feature text does not parse aborts the run at that
\* row: it is the last row read, it is not added to any query group, load_csv
\* returns nothing, no training happens and nothing is written.
C5_MalformedRowAborts ==
    \A k \in 1..Len(rowsRead) :
        Malformed(rowsRead[k]) =>
            /\ k = Len(rowsRead)
            /\ pc = "failed"
            /\ error \in ParseErrors
            /\ exitcode = 1
            /\ SumSeq([i \in 1..Len(by_query) |-> Len(by_query[i].items)]) < Len(rowsRead)
            /\ ret = NotReturned
            /\ booster = "none"
            /\ saves = 0
            /\ artifact = "absent"

C5_Witness ==
    /\ Len(rowsRead) = 3
    /\ Malformed(rowsRead[3])
    /\ Len(by_query) = 2
    /\ pc = "failed"
    /\ error = "ValueError"

\* C6: in every returned training set each group size is at least 2 and the
\* labels of each group's block hold at least 2 distinct values.
C6_GroupsHaveRankingSignal ==
    ret.returned =>
        \A i \in 1..Len(ret.groups) :
            /\ ret.groups[i] >= 2
            /\ Cardinality(BlockLabels(ret, i)) >= 2

C6_Witness ==
    /\ ret.returned
    /\ ret.groups = <<2, 2>>

\* C7: a failed write of the model never leaves a partly written file at the
\* output path.
C7_NoHalfWrittenArtifact ==
    artifact # "partial"

\* C8: with a required column absent from the header, the run ends with the
\* missing-field error and no record was added to any query group.
C8_SchemaMismatchBeforeGrouping ==
    (~(RequiredCols \subseteq fieldnames) /\ pc \in {"done", "failed"}) =>
        /\ pc = "failed"
        /\ error = "KeyError"
        /\ by_query = <<>>

\* C9: the phases run in the order prepare, train, persist, upload.  The
\* output path is written only with a trained booster, once in a run that
\* succeeds and never in a run that fails in preparation or training, and an
\* upload is attempted only after the complete local write and only when
\* both a bucket and a key were given.
C9_PhaseOrder ==
    /\ booster = "trained" => ret.returned
    /\ pc \in {"save", "saved", "upload", "done"} => booster = "trained"
    /\ saves > 0 => booster = "trained"
    /\ saves <= 1
    /\ saves = 0 => artifact = "absent"
    /\ pc \in {"saved", "upload", "done"} => (saves = 1 /\ artifact = "complete")
    /\ (pc = "failed" /\ error \in ParseErrors \cup {"SystemExit", "LightGBMError"})
          => (saves = 0 /\ artifact = "absent" /\ uploads = 0)
    /\ (pc = "upload" \/ uploads > 0 \/ remote # "absent") =>
          /\ saves = 1
          /\ artifact = "complete"
          /\ args.s3_bucket # ""
          /\ args.s3_key # ""
    /\ uploads <= 1

C9_Witness ==
    /\ pc = "done"
    /\ saves = 1
    /\ uploads = 1
    /\ remote = "complete"

\* C10: every returned training set is the concatenation, in some order of
\* the surviving query ids, of each query's input rows in arrival order;
\* groups holds the block sizes in that order and row k of X and entry k of
\* y come from the same input row.
C10_ContiguousBlocks ==
    ret.returned =>
        LET items == InputItems IN
        \E qs \in Orderings(MixedQidsOf(items)) :
            /\ ret.groups = [i \in 1..Len(qs) |-> Len(RowsOfQid(items, qs[i]))]
            /\ ReturnedRows(ret) = ExpectedRows(items, qs)

C10_Witness ==
    /\ ret.returned
    /\ Len(ret.groups) = 2
    /\ Len(rowsRead) = 4
    /\ rowsRead[1]["qid"] = rowsRead[3]["qid"]
    /\ rowsRead[2]["qid"] = rowsRead[4]["qid"]
    /\ rowsRead[1]["qid"] # rowsRead[2]["qid"]
    /\ ret.X[1] # ret.X[2]

====
